---- MODULE Spec2Model ----
(***************************************************************************)
(* The configuration repository of bluemix/configuration/core_config       *)
(* (bx_config.go): a typed document and its raw companion map, loaded once *)
(* through a Persistor behind a sync.Once, guarded by one sync.RWMutex and *)
(* saved by every mutator.  Goroutines are modelled as threads that call   *)
(* the accessors and mutators; each call is a sequence of steps at the     *)
(* points where another goroutine can observe it.                          *)
(***************************************************************************)
EXTENDS Integers, Sequences, FiniteSets, TLC

VARIABLES
    pc,        \* per goroutine: where its current call stands
    call,      \* per goroutine: the method called and its argument
    idx,       \* per goroutine: assignments of the callback already executed
    err,       \* per goroutine: the error its Load or Save returned
    ret,       \* per goroutine: outcome of its last finished call
    readers,   \* RWMutex: goroutines holding the read lock
    wowner,    \* RWMutex: the goroutine that holds the writer mutex (0: none)
    once,      \* sync.Once of initOnce: "new", "running", "done"
    data,      \* c.data: the typed fields of BXConfigData
    raw,       \* c.data.raw
    heap,      \* backing arrays of the PluginRepos slices
    disk,      \* what the Persistor holds
    onError,   \* the injected handler: "return" or "panic"
    run,       \* the bootstrap of a plugin (Run): its position and what it did
    loads,     \* history: invocations of persistor.Load
    hist,      \* history: failures not yet handled, last Save, last commit
    ncalls     \* history: calls started

vars == <<pc, call, idx, err, ret, readers, wowner, once, data, raw, heap, disk,
          onError, run, loads, hist, ncalls>>

----------------------------------------------------------------------------
(* Bounds of the model. *)

NThreads == 2
MaxCalls == 3
MaxSegs == 4    \* ':'-separated pieces of the region ids tried

Threads == 1..NThreads

----------------------------------------------------------------------------
(* Values.  A JSON value, and a value held in the raw map (a Go             *)
(* interface{}), carries its dynamic type.                                  *)

JStr(s)  == [ty |-> "string", v |-> s]
JNum(n)  == [ty |-> "number", v |-> n]
JBool(b) == [ty |-> "bool",   v |-> b]
JObj(o)  == [ty |-> "object", v |-> o]
JArr(a)  == [ty |-> "array",  v |-> a]
JNull    == [ty |-> "null",   v |-> "null"]

StringFields == {"ConsoleEndpoint", "Region", "RegionID", "RegionType",
                 "IAMEndpoint", "IAMID", "IAMToken", "IAMRefreshToken",
                 "Locale", "Trace", "ColorEnabled", "CLIInfoEndpoint"}
\* The string field whose characters the code inspects (CloudName): its
\* values are tuples of characters.
TextFields   == {"RegionID"}
BoolFields   == {"CheckCLIVersionDisabled", "UsageStatsDisabled"}
IntFields    == {"HTTPTimeout"}
StructFields == {"Account", "ResourceGroup"}
SliceFields  == {"PluginRepos"}

\* The exported fields of BXConfigData.
KnownFields == StringFields \cup BoolFields \cup IntFields \cup StructFields
                 \cup SliceFields

EmptyAccount == [GUID |-> "", Name |-> ""]
EmptyGroup   == [GUID |-> "", Name |-> ""]
NilSlice     == [arr |-> 0, len |-> 0]

\* new(BXConfigData): every field holds its zero value.
ZeroData ==
    [f \in KnownFields |->
        IF f \in TextFields THEN <<>>
        ELSE IF f \in StringFields THEN ""
        ELSE IF f \in BoolFields THEN FALSE
        ELSE IF f \in IntFields THEN 0
        ELSE IF f = "Account" THEN EmptyAccount
        ELSE IF f = "ResourceGroup" THEN EmptyGroup
        ELSE NilSlice]

\* make(map[string]interface{})
EmptyMap == [k \in {} |-> JNull]

----------------------------------------------------------------------------
(* Strings that the code inspects character by character are tuples of     *)
(* characters; strings.ToLower and strings.EqualFold on them.               *)

LowerChar(c) ==
    CASE c = "F" -> "f"
      [] c = "B" -> "b"
      [] c = "O" -> "o"
      [] OTHER   -> c

ToLower(s) == [i \in DOMAIN s |-> LowerChar(s[i])]

EqualFold(a, b) == ToLower(a) = ToLower(b)

ZeroRepo == [Name |-> <<>>, URL |-> ""]

\* strings.Split(s, sep) for a one-character separator: the pieces between
\* the separators, one piece (s itself) when there is none.
RECURSIVE Split(_, _)
Split(s, sep) ==
    IF \A i \in 1..Len(s) : s[i] # sep THEN <<s>>
    ELSE LET i == CHOOSE k \in 1..Len(s) :
                     s[k] = sep /\ \A j \in 1..(k - 1) : s[j] # sep
         IN <<SubSeq(s, 1, i - 1)>> \o Split(SubSeq(s, i + 1, Len(s)), sep)

\* A prefix test that only accepts the prefix itself.
HasPrefixExact(s, prefix) == s = prefix

HasPrefix(s, prefix) ==
    Len(s) >= Len(prefix) /\ SubSeq(s, 1, Len(prefix)) = prefix

----------------------------------------------------------------------------
(* Slices: a header (array, length) over a backing array of the heap; the  *)
(* capacity is the length of the backing array.  Array 0 is nil.            *)

Cap(h, s) == IF s.arr = 0 THEN 0 ELSE Len(h[s.arr])

\* The elements a slice header denotes in heap h.
Contents(h, s) == IF s.arr = 0 THEN <<>> ELSE SubSeq(h[s.arr], 1, s.len)

\* encoding/json grows the slice it decodes an array into: capacity 0 for an
\* empty array, at least 4 otherwise, then by half.
DecodeCap(n) == IF n = 0 THEN 0 ELSE IF n <= 4 THEN 4 ELSE n + n \div 2

Padded(elems, c) == [i \in 1..c |-> IF i <= Len(elems) THEN elems[i] ELSE ZeroRepo]

----------------------------------------------------------------------------
(* Encoding and decoding.                                                   *)

JsonType(f) ==
    IF f \in StringFields THEN "string"
    ELSE IF f \in BoolFields THEN "bool"
    ELSE IF f \in IntFields THEN "number"
    ELSE IF f \in StructFields THEN "object"
    ELSE "array"

\* The value of field f as an interface{} / as JSON; a nil slice is null.
GoVal(f, v, h) ==
    IF f \in SliceFields
    THEN IF v.arr = 0 THEN JNull ELSE JArr(Contents(h, v))
    ELSE [ty |-> JsonType(f), v |-> v]

\* structs.Map(c.data): one key per exported field.
StructsMap(d, h) == [f \in KnownFields |-> GoVal(f, d[f], h)]

\* BXConfigData.Marshal: json.MarshalIndent of the struct, exported fields only.
MarshalData(d, h) == [f \in KnownFields |-> GoVal(f, d[f], h)]

\* raw.Marshal: json.MarshalIndent of the map, every key it holds.
MarshalRaw(r) == [k \in DOMAIN r |-> r[k]]

\* json.Unmarshal into the struct: a key of the object that names a field
\* sets it when the value has the field's type, null leaves it alone, and a
\* value of another type is skipped and reported after the rest is decoded.
Mistyped(obj) ==
    {f \in KnownFields \cap DOMAIN obj : obj[f].ty \notin {JsonType(f), "null"}}

Decodes(obj, f) == f \in DOMAIN obj /\ obj[f].ty = JsonType(f)

\* The heap after decoding: a decoded array gets a backing array of its own.
DecodeHeap(obj, h) ==
    IF Decodes(obj, "PluginRepos")
    THEN Append(h, Padded(obj["PluginRepos"].v, DecodeCap(Len(obj["PluginRepos"].v))))
    ELSE h

DecodeTyped(obj, d, h) ==
    [f \in KnownFields |->
        IF ~Decodes(obj, f) THEN d[f]
        ELSE IF f \in SliceFields
             THEN [arr |-> Len(h) + 1, len |-> Len(obj[f].v)]
        ELSE obj[f].v]

\* json.Unmarshal into the nil raw map: a new map holding every key.
DecodeRaw(obj) == [k \in DOMAIN obj |-> obj[k]]

----------------------------------------------------------------------------
(* The methods.  A call is [op, arg]; read, write and writeRaw are the      *)
(* three wrappers a method runs its callback in.                            *)

ReadOps == {"ConsoleEndpoint", "Region", "IAMEndpoint", "IAMToken",
            "IAMRefreshToken", "Account", "ResourceGroup", "HasResourceGroup",
            "PluginRepos", "Locale", "Trace", "ColorEnabled", "HTTPTimeout",
            "CLIInfoEndpoint", "CheckCLIVersionDisabled", "UsageStatsDisabled"}

RawOps == {"SetIAMToken", "SetIAMRefreshToken"}

\* Methods that call a getter and work on what it returned, outside the lock.
DerivedOps == {"CloudName", "CloudType", "HasAccount", "PluginRepo"}

\* The method whose wrapper a call runs in.
Getter(op) ==
    CASE op \in {"CloudName", "CloudType"} -> "Region"
      [] op = "HasAccount" -> "Account"
      [] op = "PluginRepo" -> "PluginRepos"
      [] OTHER -> op

Kind(op) == IF Getter(op) \in ReadOps THEN "read"
            ELSE IF op \in RawOps THEN "writeRaw"
            ELSE "write"

\* What the callback of a getter assigns to the getter's result.
ReadCb(op, d) ==
    CASE op = "Region" ->
            [ID |-> d["RegionID"], Name |-> d["Region"], Type |-> d["RegionType"]]
      [] op = "HasResourceGroup" ->
            d["ResourceGroup"].GUID # "" /\ d["ResourceGroup"].Name # ""
      [] OTHER -> d[op]

\* CloudName() on the id of the region Region() returned.
CloudName(regionID) ==
    IF regionID = <<>> THEN <<>>
    ELSE LET splits == Split(regionID, ":") IN
         IF Len(splits) # 3 THEN <<>>
         ELSE IF splits[1] # <<"i", "b", "m">> THEN splits[1]
         ELSE IF splits[2] = <<"y", "p">> THEN <<"b", "l", "u", "e", "m", "i", "x">>
         ELSE IF HasPrefix(splits[2], <<"y", "s">>)
              THEN <<"s", "t", "a", "g", "i", "n", "g">>
         ELSE <<>>

\* CloudType() on the region Region() returned.
CloudType(region) == region.Type

\* HasAccount() on the account Account() returned.
HasAccount(account) == account.GUID # ""

Set(f, v)    == [k |-> "set", f |-> f, v |-> v]

\* A raw assignment that lands on the other token's key.
RawSetOtherKey(f, v) ==
    [k |-> "rawset", v |-> v,
     f |-> IF f = "IAMToken" THEN "IAMRefreshToken" ELSE "IAMToken"]

RawSet(f, v) == [k |-> "rawset", f |-> f, v |-> v]

\* The assignments of a mutator's callback, in program order.
WriteCb(c) ==
    CASE c.op = "SetConsoleEndpoint" -> <<Set("ConsoleEndpoint", c.arg)>>
      [] c.op = "SetRegion" ->
            <<Set("Region", c.arg.Name), Set("RegionID", c.arg.ID),
              Set("RegionType", c.arg.Type)>>
      [] c.op = "SetIAMEndpoint" -> <<Set("IAMEndpoint", c.arg)>>
      [] c.op = "SetIAMToken" ->
            <<Set("IAMToken", c.arg), RawSet("IAMToken", c.arg)>>
      [] c.op = "SetIAMRefreshToken" ->
            <<Set("IAMRefreshToken", c.arg), RawSet("IAMRefreshToken", c.arg)>>
      [] c.op = "SetAccount" -> <<Set("Account", c.arg)>>
      [] c.op = "SetResourceGroup" -> <<Set("ResourceGroup", c.arg)>>
      [] c.op = "SetPluginRepo" -> <<[k |-> "append", f |-> "PluginRepos", v |-> c.arg]>>
      [] c.op = "UnSetPluginRepo" -> <<[k |-> "unset", f |-> "PluginRepos", v |-> c.arg]>>
      [] c.op = "SetHTTPTimeout" -> <<Set("HTTPTimeout", c.arg)>>
      [] c.op = "SetCheckCLIVersionDisabled" -> <<Set("CheckCLIVersionDisabled", c.arg)>>
      [] c.op = "SetCLIInfoEndpoint" -> <<Set("CLIInfoEndpoint", c.arg)>>
      [] c.op = "SetUsageStatsDisabled" -> <<Set("UsageStatsDisabled", c.arg)>>
      [] c.op = "SetColorEnabled" -> <<Set("ColorEnabled", c.arg)>>
      [] c.op = "SetLocale" -> <<Set("Locale", c.arg)>>
      [] c.op = "SetTrace" -> <<Set("Trace", c.arg)>>
      [] c.op = "ClearSession" ->
            <<Set("IAMToken", ""), Set("IAMRefreshToken", ""),
              Set("Account", EmptyAccount), Set("ResourceGroup", EmptyGroup)>>
      [] c.op = "ClearAPICache" ->
            <<Set("Region", ""), Set("RegionID", <<>>),
              Set("ConsoleEndpoint", ""), Set("IAMEndpoint", "")>>

\* append(c.data.PluginRepos, pluginRepo): in place while the capacity
\* allows, else into a new array of twice the capacity.
AppendGrows(h, s) == s.len = Cap(h, s)

AppendHeap(h, s, e) ==
    IF AppendGrows(h, s)
    THEN Append(h, Padded(Append(Contents(h, s), e),
                          IF Cap(h, s) = 0 THEN 1 ELSE 2 * Cap(h, s)))
    ELSE [h EXCEPT ![s.arr][s.len + 1] = e]

AppendSlice(h, s) ==
    IF AppendGrows(h, s) THEN [arr |-> Len(h) + 1, len |-> s.len + 1]
    ELSE [arr |-> s.arr, len |-> s.len + 1]

\* A removal that compares the names as they are.
UnsetIndexExact(elems, name) ==
    IF \E i \in 1..Len(elems) : elems[i].Name = name
    THEN CHOOSE i \in 1..Len(elems) :
            /\ elems[i].Name = name
            /\ \A j \in 1..(i - 1) : elems[j].Name # name
    ELSE Len(elems) + 1

\* The loop of UnSetPluginRepo: the index of the first entry whose lowered
\* name is the lowered repoName, len+1 when there is none.
UnsetIndex(elems, name) ==
    IF \E i \in 1..Len(elems) : ToLower(elems[i].Name) = ToLower(name)
    THEN CHOOSE i \in 1..Len(elems) :
            /\ ToLower(elems[i].Name) = ToLower(name)
            /\ \A j \in 1..(i - 1) : ToLower(elems[j].Name) # ToLower(name)
    ELSE Len(elems) + 1

\* append(repos[:i], repos[i+1:]...): the tail moves down inside the same
\* backing array; the slot past the new length keeps its old element.
UnsetHeap(h, s, name) ==
    LET i == UnsetIndex(Contents(h, s), name) IN
    IF i = s.len + 1 THEN h
    ELSE [h EXCEPT ![s.arr] =
            [j \in 1..Len(h[s.arr]) |->
                IF j >= i /\ j < s.len THEN h[s.arr][j + 1] ELSE h[s.arr][j]]]

UnsetSlice(h, s, name) ==
    IF UnsetIndex(Contents(h, s), name) = s.len + 1 THEN s
    ELSE [arr |-> s.arr, len |-> s.len - 1]

----------------------------------------------------------------------------
(* The Persistor and the files it may find.                                 *)

Repo(n, u) == [Name |-> n, URL |-> u]

\* "ibm:yp:us" and "ibm:ys1:eu"
RegionA == [ID |-> <<"i", "b", "m", ":", "y", "p", ":", "u", "s">>,
            Name |-> "us-south", Type |-> "public"]
RegionB == [ID |-> <<"i", "b", "m", ":", "y", "s", "1", ":", "e", "u">>,
            Name |-> "eu-gb", Type |-> "dedicated"]

\* A file written by a newer version: every known field and one more key.
SampleObj ==
    [k \in KnownFields \cup {"NewField"} |->
        CASE k = "NewField"    -> JStr("x")
          [] k = "Region"      -> JStr(RegionA.Name)
          [] k = "RegionID"    -> JStr(RegionA.ID)
          [] k = "RegionType"  -> JStr(RegionA.Type)
          [] k = "IAMToken"    -> JStr("t0")
          [] k = "IAMRefreshToken" -> JStr("r0")
          [] k = "Locale"      -> JStr("en")
          [] k = "Account"     -> JObj([GUID |-> "a1", Name |-> "acct"])
          [] k = "PluginRepos" -> JArr(<<Repo(<<"f">>, "u1"), Repo(<<"b">>, "u2"),
                                         Repo(<<"F">>, "u3")>>)
          [] OTHER -> GoVal(k, ZeroData[k], <<>>)]

\* The same file with a string where HTTPTimeout needs a number.
MistypedObj == [SampleObj EXCEPT !["HTTPTimeout"] = JStr("60s")]

File(obj) == [kind |-> "json", obj |-> obj]
NoFile    == [kind |-> "missing", obj |-> EmptyMap]
Garbage   == [kind |-> "garbage", obj |-> EmptyMap]

DiskDocs == {File(SampleObj), File(MistypedObj), NoFile, Garbage}

\* For the concurrent callers: a file that loads, one that fails half-way,
\* one that cannot be read.
SomeDocs == {File(SampleObj), File(MistypedObj), NoFile}

\* persistor.Save: the file after a Save that succeeds holds the encoding.
Persisted(obj) == File(obj)

\* persistor.Load(c.data): reads the file and has the document decode it.
\* "" when it succeeds, the error otherwise.
LoadError(d) ==
    CASE d.kind = "missing" -> "load: io"
      [] d.kind = "garbage" -> "load: decode"
      [] Mistyped(d.obj) # {} -> "load: decode"
      [] OTHER -> ""

----------------------------------------------------------------------------
(* State.                                                                   *)

NoCall == [op |-> "", arg |-> ""]

\* No plugin bootstrap is under way: the repository is used directly.
NoRun == [pc |-> "none", args |-> <<>>, out |-> "", ctx |-> FALSE, runs |-> 0]
NoRet  == [op |-> "", val |-> "", panic |-> FALSE]

Region(d) == ReadCb("Region", d)

\* The list of plugin repos of document d in heap h.
RepoList(d, h) == Contents(h, d["PluginRepos"])

\* The positions of list whose name is name but for the case of letters.
Matches(list, name) == {i \in 1..Len(list) : EqualFold(list[i].Name, name)}

\* History kept for a PluginRepo(name) lookup under way: whether an entry
\* with that name has been in the list at every moment since the call and no
\* mutator was called for that name, and the entries the list has held.
NoLook == [always |-> TRUE, seen |-> {}]

Range(list) == {list[i] : i \in 1..Len(list)}

\* The methods that read or change the list of plugin repos entry by entry.
RepoOps == {"PluginRepo", "SetPluginRepo", "UnSetPluginRepo"}

\* The name a plugin-repo mutator is called for.
RepoName(c) == IF c.op = "SetPluginRepo" THEN c.arg.Name ELSE c.arg

SameName(c, name) ==
    c.op \in {"SetPluginRepo", "UnSetPluginRepo"} /\ EqualFold(RepoName(c), name)

\* The histories after the list has become that of d and h.
Observe(look, calls, d, h) ==
    [u \in Threads |->
        IF calls[u].op = "PluginRepo"
        THEN [always |-> look[u].always
                            /\ Matches(RepoList(d, h), calls[u].arg) # {},
              seen |-> look[u].seen \cup Range(RepoList(d, h))]
        ELSE look[u]]

\* The histories after goroutine t has called c.
Started(look, calls, t, c, d, h) ==
    [u \in Threads |->
        IF u = t
        THEN IF c.op = "PluginRepo"
             THEN [always |-> /\ Matches(RepoList(d, h), c.arg) # {}
                              /\ \A v \in Threads : ~SameName(calls[v], c.arg),
                   seen |-> Range(RepoList(d, h))]
             ELSE NoLook
        ELSE IF calls[u].op = "PluginRepo" /\ SameName(c, calls[u].arg)
             THEN [look[u] EXCEPT !.always = FALSE]
        ELSE look[u]]

Hist0 ==
    [pending |-> 0, lastErr |-> "", lastHandled |-> "",
     saved |-> [kind |-> "", obj |-> EmptyMap],
     region |-> Region(ZeroData), loadedRaw |-> EmptyMap, loadOk |-> FALSE,
     tok |-> [IAMToken |-> "<none>", IAMRefreshToken |-> "<none>"],
     onlyTok |-> TRUE, look |-> [t \in Threads |-> NoLook]]

\* The repository as createBluemixConfigFromPersistor leaves it, over one
\* of the files docs.
NewRepository(docs) ==
    /\ pc = [t \in Threads |-> "idle"]
    /\ call = [t \in Threads |-> NoCall]
    /\ idx = [t \in Threads |-> 0]
    /\ err = [t \in Threads |-> ""]
    /\ ret = [t \in Threads |-> NoRet]
    /\ readers = {}
    /\ wowner = 0
    /\ once = "new"
    /\ data = ZeroData
    /\ raw = EmptyMap
    /\ heap = <<>>
    /\ disk \in docs
    /\ loads = 0
    /\ hist = Hist0
    /\ ncalls = 0

\* A repository used directly, with a handler that returns or one that
\* panics.
InitWith(docs) ==
    /\ NewRepository(docs)
    /\ onError \in {"return", "panic"}
    /\ run = NoRun

----------------------------------------------------------------------------
(* The steps of a call.                                                     *)

\* A goroutine calls a method of the menu.
Call(t, c) ==
    /\ pc[t] = "idle"
    /\ ncalls < MaxCalls
    /\ call' = [call EXCEPT ![t] = c]
    /\ idx' = [idx EXCEPT ![t] = 0]
    /\ err' = [err EXCEPT ![t] = ""]
    /\ ret' = [ret EXCEPT ![t] = NoRet]
    /\ pc' = [pc EXCEPT ![t] = "lock"]
    /\ ncalls' = ncalls + 1
    /\ hist' = [hist EXCEPT !.onlyTok = @ /\ Kind(c.op) # "write",
                            !.look = IF c.op \in RepoOps \/ @[t] # NoLook
                                     THEN Started(@, call, t, c, data, heap)
                                     ELSE @]
    /\ UNCHANGED <<readers, wowner, once, data, raw, heap, disk, onError, run, loads>>

\* A read lock that does not wait for writers.
RLockFreeAlways == TRUE

\* c.lock.RLock(): waits while a writer holds or awaits the lock.
RLockFree == wowner = 0

RLock(t) ==
    /\ pc[t] = "lock"
    /\ Kind(call[t].op) = "read"
    /\ RLockFree
    /\ readers' = readers \cup {t}
    /\ pc' = [pc EXCEPT ![t] = "init"]
    /\ UNCHANGED <<call, idx, err, ret, wowner, once, data, raw, heap, disk,
                   onError, run, loads, hist, ncalls>>

\* c.lock.Lock(), first half: take the writer mutex, which turns new readers
\* away.
Lock(t) ==
    /\ pc[t] = "lock"
    /\ Kind(call[t].op) # "read"
    /\ wowner = 0
    /\ wowner' = t
    /\ pc' = [pc EXCEPT ![t] = "wait"]
    /\ UNCHANGED <<call, idx, err, ret, readers, once, data, raw, heap, disk,
                   onError, run, loads, hist, ncalls>>

\* A write lock that does not wait for the readers inside.
LockDrainedAlways == TRUE

\* c.lock.Lock(), second half: wait until the readers inside have left.
LockDrained == readers = {}

LockAcquire(t) ==
    /\ pc[t] = "wait"
    /\ LockDrained
    /\ pc' = [pc EXCEPT ![t] = "init"]
    /\ UNCHANGED <<call, idx, err, ret, readers, wowner, once, data, raw, heap,
                   disk, onError, run, loads, hist, ncalls>>

\* A gate that tests "done" without mutual exclusion: a caller that arrives
\* while f runs runs f again.
OnceDoTwice(t) ==
    /\ pc[t] = "init"
    /\ \/ /\ once \in {"new", "running"}
          /\ once' = "running"
          /\ pc' = [pc EXCEPT ![t] = "load"]
       \/ /\ once = "done"
          /\ once' = once
          /\ pc' = [pc EXCEPT ![t] = "cb"]
    /\ UNCHANGED <<call, idx, err, ret, readers, wowner, data, raw, heap, disk,
                   onError, run, loads, hist, ncalls>>

\* A gate that lets a caller through while f still runs.
OnceDoNoWait(t) ==
    /\ pc[t] = "init"
    /\ \/ /\ once = "new"
          /\ once' = "running"
          /\ pc' = [pc EXCEPT ![t] = "load"]
       \/ /\ once \in {"running", "done"}
          /\ once' = once
          /\ pc' = [pc EXCEPT ![t] = "cb"]
    /\ UNCHANGED <<call, idx, err, ret, readers, wowner, data, raw, heap, disk,
                   onError, run, loads, hist, ncalls>>

\* c.initOnce.Do(f): the first caller runs f, a caller that arrives while f
\* runs waits for it, a caller that arrives later returns at once.
OnceDo(t) ==
    /\ pc[t] = "init"
    /\ \/ /\ once = "new"
          /\ once' = "running"
          /\ pc' = [pc EXCEPT ![t] = "load"]
       \/ /\ once = "done"
          /\ once' = once
          /\ pc' = [pc EXCEPT ![t] = "cb"]
    /\ UNCHANGED <<call, idx, err, ret, readers, wowner, data, raw, heap, disk,
                   onError, run, loads, hist, ncalls>>

\* persistor.Load(c.data), Unmarshal's first json.Unmarshal: the typed
\* fields.  A file that cannot be read or parsed changes nothing; a value of
\* the wrong type fails the load after the other fields are set.
LoadTyped(t) ==
    /\ pc[t] = "load"
    /\ loads' = loads + 1
    /\ IF disk.kind = "json"
       THEN /\ data' = DecodeTyped(disk.obj, data, heap)
            /\ heap' = DecodeHeap(disk.obj, heap)
       ELSE UNCHANGED <<data, heap>>
    /\ IF LoadError(disk) = ""
       THEN /\ pc' = [pc EXCEPT ![t] = "load2"]
            /\ hist' = [hist EXCEPT !.look = Observe(@, call, data', heap')]
            /\ UNCHANGED err
       ELSE /\ pc' = [pc EXCEPT ![t] = "loadErr"]
            /\ err' = [err EXCEPT ![t] = LoadError(disk)]
            /\ hist' = [hist EXCEPT !.pending = @ + 1, !.lastErr = LoadError(disk),
                                    !.look = Observe(@, call, data', heap')]
    /\ UNCHANGED <<call, idx, ret, readers, wowner, once, raw, disk, onError, run,
                   ncalls>>

\* Unmarshal's second json.Unmarshal: the raw map; Load returns nil and Do
\* is done.
LoadRaw(t) ==
    /\ pc[t] = "load2"
    /\ raw' = DecodeRaw(disk.obj)
    /\ once' = "done"
    /\ pc' = [pc EXCEPT ![t] = "cb"]
    /\ hist' = [hist EXCEPT !.region = Region(data), !.loadOk = TRUE,
                            !.loadedRaw = DecodeRaw(disk.obj)]
    /\ UNCHANGED <<call, idx, err, ret, readers, wowner, data, heap, disk,
                   onError, run, loads, ncalls>>

\* A gate that a panic of f leaves open.
OnceReopened == "new"

\* sync.Once is done when f returns and when f panics.
OnceAfterPanic == "done"

\* c.onError(err) inside Do.  A handler that panics unwinds through Do and
\* through the deferred unlock of the wrapper.
LoadFailed(t) ==
    /\ pc[t] = "loadErr"
    /\ hist' = [hist EXCEPT !.pending = @ - 1, !.lastHandled = err[t],
                            !.region = Region(data), !.loadedRaw = raw]
    /\ IF onError = "return"
       THEN /\ once' = "done"
            /\ pc' = [pc EXCEPT ![t] = "cb"]
            /\ ret' = ret
       ELSE /\ once' = OnceAfterPanic
            /\ pc' = [pc EXCEPT ![t] = "unlock"]
            /\ ret' = [ret EXCEPT ![t].panic = TRUE]
    /\ UNCHANGED <<call, idx, err, readers, wowner, data, raw, heap, disk,
                   onError, run, loads, ncalls>>

\* The callback of a getter.
ReadStep(t) ==
    /\ pc[t] = "cb"
    /\ Kind(call[t].op) = "read"
    /\ pc' = [pc EXCEPT ![t] = "unlock"]
    /\ ret' = [ret EXCEPT ![t].val = ReadCb(Getter(call[t].op), data)]
    /\ UNCHANGED <<call, idx, err, readers, wowner, once, data, raw, heap, disk,
                   onError, run, loads, hist, ncalls>>

\* Every mutator regenerates the raw map.
AfterCbRegen(op) == "regen"

\* Where a mutator goes after its callback: write regenerates the raw map,
\* writeRaw saves at once.
AfterCb(op) == IF Kind(op) = "write" THEN "regen" ELSE "save"

\* One assignment of a mutator's callback.
WriteStep(t) ==
    LET a == WriteCb(call[t])[idx[t] + 1]
        last == idx[t] + 1 = Len(WriteCb(call[t]))
        s == data["PluginRepos"]
    IN
    /\ pc[t] = "cb"
    /\ Kind(call[t].op) # "read"
    /\ CASE a.k = "set" ->
                /\ data' = [data EXCEPT ![a.f] = a.v]
                /\ UNCHANGED <<raw, heap>>
         [] a.k = "rawset" ->
                /\ raw' = [k \in DOMAIN raw \cup {a.f} |->
                              IF k = a.f THEN JStr(a.v) ELSE raw[k]]
                /\ UNCHANGED <<data, heap>>
         [] a.k = "append" ->
                /\ heap' = AppendHeap(heap, s, a.v)
                /\ data' = [data EXCEPT !["PluginRepos"] = AppendSlice(heap, s)]
                /\ UNCHANGED raw
         [] a.k = "unset" ->
                /\ heap' = UnsetHeap(heap, s, a.v)
                /\ data' = [data EXCEPT !["PluginRepos"] = UnsetSlice(heap, s, a.v)]
                /\ UNCHANGED raw
    /\ idx' = [idx EXCEPT ![t] = @ + 1]
    /\ pc' = [pc EXCEPT ![t] = IF last THEN AfterCb(call[t].op) ELSE "cb"]
    /\ hist' = [hist EXCEPT
                  !.region = IF last THEN Region(data') ELSE @,
                  !.tok = IF a.k = "set" /\ a.f \in DOMAIN @
                          THEN [@ EXCEPT ![a.f] = a.v] ELSE @,
                  !.look = IF a.k \in {"append", "unset"}
                           THEN Observe(@, call, data', heap') ELSE @]
    /\ UNCHANGED <<call, err, ret, readers, wowner, once, disk, onError, run, loads,
                   ncalls>>

\* A full write that leaves the raw map as it was.
RegenSkipped(t) ==
    /\ pc[t] = "regen"
    /\ pc' = [pc EXCEPT ![t] = "save"]
    /\ UNCHANGED <<call, idx, err, ret, readers, wowner, once, data, raw, heap,
                   disk, onError, run, loads, hist, ncalls>>

\* c.data.raw = structs.Map(c.data)
Regen(t) ==
    /\ pc[t] = "regen"
    /\ raw' = StructsMap(data, heap)
    /\ pc' = [pc EXCEPT ![t] = "save"]
    /\ UNCHANGED <<call, idx, err, ret, readers, wowner, once, data, heap, disk,
                   onError, run, loads, hist, ncalls>>

\* What write and writeRaw hand to persistor.Save.
SavePayload(op) ==
    IF Kind(op) = "write"
    THEN [kind |-> "doc", obj |-> MarshalData(data, heap)]
    ELSE [kind |-> "raw", obj |-> MarshalRaw(raw)]

\* persistor.Save(...): writes the encoded value, or fails and leaves the
\* file as it was.
Save(t) ==
    /\ pc[t] = "save"
    /\ hist' = [hist EXCEPT !.saved = SavePayload(call[t].op)]
    /\ disk' = Persisted(SavePayload(call[t].op).obj)
    /\ pc' = [pc EXCEPT ![t] = "unlock"]
    /\ UNCHANGED <<call, idx, err, ret, readers, wowner, once, data, raw, heap,
                   onError, run, loads, ncalls>>

SaveFails(t) ==
    /\ pc[t] = "save"
    /\ hist' = [hist EXCEPT !.saved = SavePayload(call[t].op),
                            !.pending = @ + 1, !.lastErr = "save: io"]
    /\ err' = [err EXCEPT ![t] = "save: io"]
    /\ pc' = [pc EXCEPT ![t] = "saveErr"]
    /\ UNCHANGED <<call, idx, ret, readers, wowner, once, data, raw, heap, disk,
                   onError, run, loads, ncalls>>

\* A failed Save that nobody is told about.
SaveFailedSilently(t) ==
    /\ pc[t] = "saveErr"
    /\ pc' = [pc EXCEPT ![t] = "unlock"]
    /\ UNCHANGED <<call, idx, err, ret, readers, wowner, once, data, raw, heap,
                   disk, onError, run, loads, hist, ncalls>>

\* c.onError(err) after a failed Save.
SaveFailed(t) ==
    /\ pc[t] = "saveErr"
    /\ hist' = [hist EXCEPT !.pending = @ - 1, !.lastHandled = err[t]]
    /\ ret' = [ret EXCEPT ![t].panic = (onError = "panic")]
    /\ pc' = [pc EXCEPT ![t] = "unlock"]
    /\ UNCHANGED <<call, idx, err, readers, wowner, once, data, raw, heap, disk,
                   onError, run, loads, ncalls>>

\* An unlock at the end of the wrapper's body instead of a deferred one: a
\* panic passes it by.
UnlockNotDeferred(t) ==
    /\ pc[t] = "unlock"
    /\ IF ret[t].panic
       THEN UNCHANGED <<readers, wowner>>
       ELSE IF Kind(call[t].op) = "read"
            THEN readers' = readers \ {t} /\ wowner' = wowner
            ELSE wowner' = 0 /\ readers' = readers
    /\ IF call[t].op \in DerivedOps /\ ~ret[t].panic
       THEN /\ pc' = [pc EXCEPT ![t] = "after"]
            /\ UNCHANGED <<ret, call>>
       ELSE /\ ret' = [ret EXCEPT ![t].op = call[t].op]
            /\ pc' = [pc EXCEPT ![t] = "idle"]
            /\ call' = [call EXCEPT ![t] = NoCall]
    /\ idx' = [idx EXCEPT ![t] = 0]
    /\ err' = [err EXCEPT ![t] = ""]
    /\ UNCHANGED <<once, data, raw, heap, disk, onError, run, loads, hist, ncalls>>

\* The deferred c.lock.RUnlock() / c.lock.Unlock(); the call returns, or the
\* panic goes on to the caller.
Unlock(t) ==
    /\ pc[t] = "unlock"
    /\ IF Kind(call[t].op) = "read"
       THEN readers' = readers \ {t} /\ wowner' = wowner
       ELSE wowner' = 0 /\ readers' = readers
    /\ IF call[t].op \in DerivedOps /\ ~ret[t].panic
       THEN /\ pc' = [pc EXCEPT ![t] = "after"]
            /\ UNCHANGED <<ret, call>>
       ELSE /\ ret' = [ret EXCEPT ![t].op = call[t].op]
            /\ pc' = [pc EXCEPT ![t] = "idle"]
            /\ call' = [call EXCEPT ![t] = NoCall]
    /\ idx' = [idx EXCEPT ![t] = 0]
    /\ err' = [err EXCEPT ![t] = ""]
    /\ UNCHANGED <<once, data, raw, heap, disk, onError, run, loads, hist, ncalls>>

\* CloudName, CloudType and HasAccount compute their result from what the
\* getter returned.
Derived(t) ==
    /\ pc[t] = "after"
    /\ call[t].op \in DerivedOps \ {"PluginRepo"}
    /\ ret' = [ret EXCEPT ![t] =
                  [op |-> call[t].op, panic |-> FALSE,
                   val |-> CASE call[t].op = "CloudName" -> CloudName(ret[t].val.ID)
                             [] call[t].op = "CloudType" -> CloudType(ret[t].val)
                             [] call[t].op = "HasAccount" -> HasAccount(ret[t].val)]]
    /\ pc' = [pc EXCEPT ![t] = "idle"]
    /\ call' = [call EXCEPT ![t] = NoCall]
    /\ UNCHANGED <<idx, err, readers, wowner, once, data, raw, heap, disk,
                   onError, run, loads, hist, ncalls>>

\* A lookup that walks the list from its end.
LookupLast(t) ==
    LET s == ret[t].val
        i == s.len - idx[t]
        found == i >= 1 /\ EqualFold(heap[s.arr][i].Name, call[t].arg)
    IN
    /\ pc[t] = "after"
    /\ call[t].op = "PluginRepo"
    /\ IF i >= 1 /\ ~found
       THEN /\ idx' = [idx EXCEPT ![t] = @ + 1]
            /\ UNCHANGED <<pc, call, ret>>
       ELSE /\ ret' = [ret EXCEPT ![t] =
                         [op |-> "PluginRepo", panic |-> FALSE,
                          val |-> IF found
                                  THEN [repo |-> heap[s.arr][i], found |-> TRUE]
                                  ELSE [repo |-> ZeroRepo, found |-> FALSE]]]
            /\ pc' = [pc EXCEPT ![t] = "idle"]
            /\ call' = [call EXCEPT ![t] = NoCall]
            /\ idx' = [idx EXCEPT ![t] = 0]
    /\ UNCHANGED <<err, readers, wowner, once, data, raw, heap, disk,
                   onError, run, loads, hist, ncalls>>

\* One iteration of the loop of PluginRepo(name) over the slice PluginRepos()
\* returned: the element is read from the backing array as it is now.
Lookup(t) ==
    LET s == ret[t].val
        i == idx[t] + 1
        found == i <= s.len /\ EqualFold(heap[s.arr][i].Name, call[t].arg)
    IN
    /\ pc[t] = "after"
    /\ call[t].op = "PluginRepo"
    /\ IF i <= s.len /\ ~found
       THEN /\ idx' = [idx EXCEPT ![t] = i]
            /\ UNCHANGED <<pc, call, ret>>
       ELSE /\ ret' = [ret EXCEPT ![t] =
                         [op |-> "PluginRepo", panic |-> FALSE,
                          val |-> IF found
                                  THEN [repo |-> heap[s.arr][i], found |-> TRUE]
                                  ELSE [repo |-> ZeroRepo, found |-> FALSE]]]
            /\ pc' = [pc EXCEPT ![t] = "idle"]
            /\ call' = [call EXCEPT ![t] = NoCall]
            /\ idx' = [idx EXCEPT ![t] = 0]
    /\ UNCHANGED <<err, readers, wowner, once, data, raw, heap, disk,
                   onError, run, loads, hist, ncalls>>

----------------------------------------------------------------------------
(* The bootstrap of a plugin (plugin_shim.go): Run on the main goroutine,   *)
(* goroutine 1.                                                             *)

\* A test that looks at the first argument only.
isMetadataRequestFirst(args) == Len(args) >= 1 /\ args[1] = "SendMetadata"

isMetadataRequest(args) == Len(args) = 1 /\ args[1] = "SendMetadata"

\* Run, metadata request: the metadata goes to stdout and Run returns.
SendMetadata ==
    /\ run.pc = "start"
    /\ isMetadataRequest(run.args)
    /\ run' = [run EXCEPT !.out = "metadata", !.pc = "done"]
    /\ UNCHANGED <<pc, call, idx, err, ret, readers, wowner, once, data, raw,
                   heap, disk, onError, loads, hist, ncalls>>

\* GetPluginContext: NewCoreConfig with the handler that panics.
GetPluginContext ==
    /\ run.pc = "start"
    /\ ~isMetadataRequest(run.args)
    /\ onError' = "panic"
    /\ run' = [run EXCEPT !.ctx = TRUE, !.pc = "context"]
    /\ UNCHANGED <<pc, call, idx, err, ret, readers, wowner, once, data, raw,
                   heap, disk, loads, hist, ncalls>>

\* context.Locale(): the repository's getter.
ContextLocale ==
    /\ run.pc = "context"
    /\ ret[1].op = ""
    /\ Call(1, [op |-> "Locale", arg |-> ""])

\* plugin.Run(context, args), entered when context.Locale() has returned.
PluginRun ==
    /\ run.pc = "context"
    /\ pc[1] = "idle" /\ ret[1].op = "Locale" /\ ~ret[1].panic
    /\ run' = [run EXCEPT !.runs = @ + 1, !.pc = "plugin"]
    /\ UNCHANGED <<pc, call, idx, err, ret, readers, wowner, once, data, raw,
                   heap, disk, onError, loads, hist, ncalls>>

\* The plugin uses the context it was handed.
PluginCall(c) ==
    /\ run.pc = "plugin"
    /\ ~ret[1].panic
    /\ Call(1, c)

\* A panic of the handler leaves Run through every frame.
RunAborted ==
    /\ run.pc \in {"context", "plugin"}
    /\ pc[1] = "idle" /\ ret[1].panic
    /\ run' = [run EXCEPT !.pc = "panicked"]
    /\ UNCHANGED <<pc, call, idx, err, ret, readers, wowner, once, data, raw,
                   heap, disk, onError, loads, hist, ncalls>>

\* plugin.Run returns, and Run with it.
RunReturns ==
    /\ run.pc = "plugin"
    /\ pc[1] = "idle" /\ ~ret[1].panic
    /\ run' = [run EXCEPT !.pc = "done"]
    /\ UNCHANGED <<pc, call, idx, err, ret, readers, wowner, once, data, raw,
                   heap, disk, onError, loads, hist, ncalls>>

Step(t) ==
    \/ RLock(t) \/ Lock(t) \/ LockAcquire(t) \/ OnceDo(t)
    \/ LoadTyped(t) \/ LoadRaw(t) \/ LoadFailed(t)
    \/ ReadStep(t) \/ WriteStep(t) \/ Regen(t)
    \/ Save(t) \/ SaveFails(t) \/ SaveFailed(t) \/ Unlock(t)

----------------------------------------------------------------------------
(* Specifications: the same repository under different callers.             *)

\* Concurrent getters and mutators of the region and the access token.
Menu ==
    {[op |-> "Region", arg |-> ""],
     [op |-> "SetRegion", arg |-> RegionB], [op |-> "ClearAPICache", arg |-> ""],
     [op |-> "SetIAMToken", arg |-> "t1"]}

Init == InitWith(SomeDocs)

Next == \E t \in Threads : (\E c \in Menu : Call(t, c)) \/ Step(t)

Spec == Init /\ [][Next]_vars

\* One goroutine: token refreshes, full writes and getters, in any order,
\* over every kind of file.
SeqMenu ==
    {[op |-> "IAMToken", arg |-> ""], [op |-> "IAMRefreshToken", arg |-> ""],
     [op |-> "Locale", arg |-> ""],
     [op |-> "SetIAMToken", arg |-> "t1"], [op |-> "SetIAMToken", arg |-> "t2"],
     [op |-> "SetIAMRefreshToken", arg |-> "r1"],
     [op |-> "SetLocale", arg |-> "fr"], [op |-> "ClearSession", arg |-> ""]}

InitSeq == InitWith(DiskDocs)

NextSeq == (\E c \in SeqMenu : Call(1, c)) \/ Step(1)

SpecSeq == InitSeq /\ [][NextSeq]_vars

\* Goroutines that read, extend and shrink the plugin-repo list.
RepoMenu ==
    {[op |-> "PluginRepos", arg |-> ""],
     [op |-> "SetPluginRepo", arg |-> Repo(<<"B">>, "u4")],
     [op |-> "UnSetPluginRepo", arg |-> <<"F">>],
     [op |-> "UnSetPluginRepo", arg |-> <<"x">>],
     [op |-> "PluginRepo", arg |-> <<"b">>]}

InitRepos == InitWith({File(SampleObj), NoFile})

NextRepos ==
    \E t \in Threads : (\E c \in RepoMenu : Call(t, c)) \/ Step(t) \/ Lookup(t)

SpecRepos == InitRepos /\ [][NextRepos]_vars

\* One goroutine that extends, shrinks and searches the plugin-repo list.
Foo == <<"f", "o", "o">>

RepoSeqMenu ==
    {[op |-> "SetPluginRepo", arg |-> Repo(Foo, "u4")],
     [op |-> "SetPluginRepo", arg |-> Repo(<<"B">>, "u5")],
     [op |-> "UnSetPluginRepo", arg |-> <<"F", "O", "O">>],
     [op |-> "UnSetPluginRepo", arg |-> <<"F">>],
     [op |-> "PluginRepo", arg |-> <<"F", "o", "o">>],
     [op |-> "PluginRepo", arg |-> <<"F">>],
     [op |-> "PluginRepo", arg |-> <<"b">>]}

NextRepoSeq == (\E c \in RepoSeqMenu : Call(1, c)) \/ Step(1) \/ Lookup(1)

SpecRepoSeq == InitRepos /\ [][NextRepoSeq]_vars

\* One goroutine that asks for the cloud name and type of region ids of
\* every shape: 1 to MaxSegs pieces joined by ':', the first from Customers,
\* the second from Deployments, the others from Locations.
Customers   == {<<>>, <<"i", "b", "m">>, <<"s", "l">>}
Deployments == {<<>>, <<"y", "p">>, <<"y", "s">>, <<"y", "s", "1">>, <<"y">>,
                <<"y", "p", "x">>}
Locations   == {<<>>, <<"u", "s">>}

SegLists(n) ==
    {segs \in [1..n -> Customers \cup Deployments \cup Locations] :
        \A k \in 1..n : segs[k] \in (IF k = 1 THEN Customers
                                      ELSE IF k = 2 THEN Deployments
                                      ELSE Locations)}

\* strings.Join(segs, sep)
RECURSIVE Join(_, _)
Join(segs, sep) ==
    IF Len(segs) = 1 THEN segs[1]
    ELSE segs[1] \o <<sep>> \o Join(Tail(segs), sep)

RegionIds == {Join(segs, ":") : segs \in UNION {SegLists(n) : n \in 1..MaxSegs}}

CloudDocs ==
    {File([SampleObj EXCEPT !["RegionID"] = JStr(id)]) : id \in RegionIds}

CloudMenu ==
    {[op |-> "CloudName", arg |-> ""], [op |-> "CloudType", arg |-> ""],
     [op |-> "SetRegion", arg |-> RegionB]}

InitCloud == InitWith(CloudDocs \cup {NoFile})

NextCloud == (\E c \in CloudMenu : Call(1, c)) \/ Step(1) \/ Derived(1)

SpecCloud == InitCloud /\ [][NextCloud]_vars

\* Concurrent callers under a fair scheduler: every goroutine that can take
\* a step does so in the end; Load and Save return (Save(t) or SaveFails(t)
\* is such a step).
FairMenu ==
    {[op |-> "IAMToken", arg |-> ""], [op |-> "SetLocale", arg |-> "fr"]}

InitFair == InitWith({File(SampleObj), NoFile})

NextFair == \E t \in Threads : (\E c \in FairMenu : Call(t, c)) \/ Step(t)

\* Every step of a call moves the goroutine's position.
position == <<pc, idx>>

SpecFair ==
    InitFair /\ [][NextFair]_vars /\ \A t \in Threads : WF_position(Step(t))

\* A plugin process: Run with some arguments over some file; the plugin
\* reads and sets the locale.
ArgLists == {<<>>, <<"SendMetadata">>, <<"SendMetadata", "x">>,
             <<"x", "SendMetadata">>, <<"x">>}

PluginMenu ==
    {[op |-> "Locale", arg |-> ""], [op |-> "SetLocale", arg |-> "fr"]}

InitRun ==
    /\ NewRepository(DiskDocs)
    /\ onError = "none"
    /\ run \in {[pc |-> "start", args |-> a, out |-> "", ctx |-> FALSE,
                  runs |-> 0] : a \in ArgLists}

NextRun ==
    \/ SendMetadata \/ GetPluginContext \/ ContextLocale \/ PluginRun
    \/ (\E c \in PluginMenu : PluginCall(c))
    \/ RunAborted \/ RunReturns
    \/ Step(1)

SpecRun == InitRun /\ [][NextRun]_vars

----------------------------------------------------------------------------
(* Properties of the locking and of the one-time load.                      *)

\* Between the lock and the deferred unlock of the wrapper.
InCS(t) == pc[t] \in {"init", "load", "load2", "loadErr", "cb", "regen", "save",
                      "saveErr", "unlock"}

Reading(t) == call[t].op # "" /\ Kind(call[t].op) = "read"
Writing(t) == call[t].op # "" /\ Kind(call[t].op) # "read"

HoldsLock(t) == IF Reading(t) THEN t \in readers ELSE wowner = t /\ pc[t] # "wait"

\* Some call has ended (returned, or passed the handler's panic on).
SomeCallEnded == ncalls > Cardinality({t \in Threads : pc[t] # "idle"})

\* C1: persistor.Load is invoked at most once, whatever the interleaving of
\* the first calls, and it has been invoked exactly once as soon as any call
\* has ended or has come past the one-time gate.
C1_LoadOnce ==
    /\ loads <= 1
    /\ SomeCallEnded => loads = 1
    /\ \A t \in Threads : pc[t] \in {"cb", "regen", "save", "saveErr", "unlock"}
                              => loads = 1

\* Two first calls are inside the lock together and the load has run once.
C1_Witness ==
    /\ ncalls = 2 /\ Cardinality(readers) = 2
    /\ once = "done" /\ loads = 1
    /\ \A t \in readers : pc[t] \in {"cb", "unlock"}

\* C2: a getter's callback runs, and the getter holds its result, only when
\* the one-time load has finished, also for a reader that shares the read
\* lock with the reader that loads.
C2_NoReadDuringLoad ==
    \A t \in Threads : Reading(t) /\ pc[t] \in {"cb", "unlock"} => once = "done"

\* Two readers hold the read lock, one loads and the other waits at the gate.
C2_Witness ==
    \E t, u \in Threads :
        /\ t # u /\ {t, u} \subseteq readers
        /\ pc[t] \in {"load", "load2"} /\ pc[u] = "init"

\* C3: while a mutator is between acquiring the lock and the deferred unlock
\* (gate, load, callback, raw-map regeneration, Save, handler), no other call
\* is between its lock and its unlock.
C3_WriterExcludes ==
    \A t, u \in Threads :
        t # u /\ Writing(t) /\ InCS(t) => ~InCS(u)

\* A mutator is in the handler after a failed Save while another call waits
\* for the lock.
C3_Witness ==
    \E t, u \in Threads :
        /\ t # u /\ Writing(t) /\ pc[t] = "saveErr"
        /\ pc[u] = "lock"

\* C4: the triple that the callback of Region() reads is the region of the
\* document as the last completed load or mutation left it: all three fields
\* from before a concurrent write or all three from after it.
C4_RegionAtomic ==
    [][\A t \in Threads :
          pc[t] = "cb" /\ call[t].op = "Region" /\ pc'[t] = "unlock"
              => ret'[t].val = hist.region]_vars

\* Region() holds the region SetRegion wrote while ClearAPICache waits for
\* the lock.
C4_Witness ==
    \E t, u \in Threads :
        /\ pc[t] = "unlock" /\ call[t].op = "Region" /\ ~ret[t].panic
        /\ ret[t].val = RegionB
        /\ pc[u] = "wait" /\ call[u].op = "ClearAPICache"

\* C8: every failure of Load or Save is followed by one call of the handler
\* with that error, made inside the lock; a getter whose call saw a failure
\* still returns the document's value; the handler runs for no other reason.
C8_HandlerPerFailure ==
    /\ hist.pending = Cardinality({t \in Threads : pc[t] \in {"loadErr", "saveErr"}})
    /\ \A t \in Threads :
          pc[t] \in {"loadErr", "saveErr"} => HoldsLock(t) /\ err[t] = hist.lastErr
    /\ hist.pending = 0 => hist.lastHandled = hist.lastErr
    /\ \A t \in Threads :
          Reading(t) /\ pc[t] = "unlock" /\ ~ret[t].panic
              => ret[t].val = ReadCb(Getter(call[t].op), data)

\* A Save failed, the handler was called with its error and returned.
C8_Witness ==
    \E t \in Threads :
        /\ pc[t] = "unlock" /\ Writing(t) /\ ~ret[t].panic
        /\ hist.lastHandled = "save: io" /\ hist.pending = 0

\* C9: the gate only moves new -> running -> done; it is entered once, before
\* any Load, and once it is done no step invokes Load again, also after a
\* load that failed.
C9_GateOneWay ==
    [][/\ once = "new" => once' \in {"new", "running"} /\ loads' = loads
       /\ once = "running" => once' \in {"running", "done"}
       /\ once = "done" => once' = "done" /\ loads' = loads
       /\ once = "new" /\ once' = "running" => loads = 0]_vars

\* The load failed, the handler panicked, and a later call is at its
\* callback.
C9_Witness ==
    \E t \in Threads :
        /\ onError = "panic" /\ disk.kind = "missing" /\ loads = 1
        /\ hist.lastHandled = "load: io"
        /\ pc[t] = "cb"

----------------------------------------------------------------------------
(* Properties of what is kept in memory and what is persisted.              *)

\* The keys of the loaded file that are no fields of BXConfigData.
UnknownKeys == DOMAIN hist.loadedRaw \ KnownFields

UnknownKept(m) ==
    \A k \in UnknownKeys : k \in DOMAIN m /\ m[k] = hist.loadedRaw[k]

\* The typed fields that file content decodes to, slices by their elements.
FieldValue(d, h, f) == IF f \in SliceFields THEN Contents(h, d[f]) ELSE d[f]

DecodesTo(obj, d, h) ==
    \A f \in KnownFields :
        FieldValue(DecodeTyped(obj, ZeroData, <<>>), DecodeHeap(obj, <<>>), f)
            = FieldValue(d, h, f)

\* C5: while the only mutators called are SetIAMToken and SetIAMRefreshToken,
\* every unknown key of the loaded raw map is still in the raw map with its
\* value, each Save was handed the raw map, and IAMToken() and
\* IAMRefreshToken() return the argument of the last corresponding setter.
C5_TokenWritesKeepRaw ==
    hist.onlyTok /\ once = "done" =>
        /\ UnknownKept(raw)
        /\ hist.saved.kind \in {"", "raw"}
        /\ pc[1] \in {"saveErr", "unlock"} /\ Writing(1) => hist.saved.obj = raw
        /\ hist.saved.kind = "raw" => UnknownKept(hist.saved.obj)
        /\ \A f \in {"IAMToken", "IAMRefreshToken"} :
              hist.tok[f] # "<none>"
                  => /\ pc[1] \in {"idle", "lock", "init"} => data[f] = hist.tok[f]
                     /\ pc[1] = "unlock" /\ call[1].op = f /\ ~ret[1].panic
                            => ret[1].val = hist.tok[f]

\* After SetIAMToken twice, IAMToken() returns "t2" and the raw map that was
\* handed to Save holds "t2" and the unknown key.
C5_Witness ==
    /\ hist.onlyTok /\ ncalls = 3 /\ hist.tok["IAMToken"] = "t2"
    /\ pc[1] = "unlock" /\ call[1].op = "IAMToken" /\ ~ret[1].panic
    /\ ret[1].val = "t2"
    /\ hist.saved.kind = "raw"
    /\ "NewField" \in DOMAIN hist.saved.obj
    /\ hist.saved.obj["IAMToken"] = JStr("t2")

\* C6 as claimed: after a full write has regenerated the raw map, every
\* unknown key of the loaded file is still in the raw map, and in the file
\* once the Save has succeeded.
C6_FullWriteKeepsUnknown ==
    \A t \in Threads :
        Writing(t) /\ Kind(call[t].op) = "write" =>
            /\ pc[t] \in {"save", "saveErr", "unlock"} => UnknownKept(raw)
            /\ pc[t] = "unlock" /\ hist.pending = 0 /\ hist.lastErr # "save: io"
                  => UnknownKept(disk.obj)

\* C7 as claimed: once a Save has failed, a later write or writeRaw whose
\* Save succeeds leaves a file that decodes to the typed fields in memory.
C7_NextSaveReconciles ==
    \A t \in Threads :
        /\ Writing(t) /\ pc[t] = "unlock" /\ ~ret[t].panic
        /\ hist.lastErr = "save: io" /\ hist.lastHandled = "save: io"
        /\ disk = Persisted(hist.saved.obj)
        => DecodesTo(disk.obj, data, heap)

\* C10 as claimed: the list a finished PluginRepos() call returned keeps its
\* elements through every later step.
C10_ReturnedListStable ==
    [][\A t \in Threads :
          /\ ret[t].op = "PluginRepos" /\ ~ret[t].panic
          /\ ret'[t].op = "PluginRepos"
          => Contents(heap', ret'[t].val) = Contents(heap, ret[t].val)]_vars

----------------------------------------------------------------------------
(* Properties of the session and API-cache resets.                          *)

\* The fields spec'd as reset by ClearAPICache: the region triple and the
\* two endpoints.
ApiCacheFields == {"Region", "RegionID", "RegionType", "ConsoleEndpoint",
                   "IAMEndpoint"}

\* C11 as claimed: the callback of ClearAPICache changes no field but the
\* region's id, name and type and the console and IAM endpoints, and when it
\* has run all five are empty, so that Region() is the empty region.
C11_ApiCacheCleared ==
    [][\A t \in Threads :
          call[t].op = "ClearAPICache" /\ pc[t] = "cb" =>
              /\ \A f \in KnownFields \ ApiCacheFields : data'[f] = data[f]
              /\ pc'[t] # "cb" =>
                    /\ \A f \in ApiCacheFields : data'[f] = ZeroData[f]
                    /\ Region(data') = Region(ZeroData)]_vars

\* The fields ClearSession resets.
SessionFields == {"IAMToken", "IAMRefreshToken", "Account", "ResourceGroup"}

\* Map m holds the empty value under every session field.
SessionCleared(m) ==
    \A f \in SessionFields :
        f \in DOMAIN m /\ m[f] = GoVal(f, ZeroData[f], <<>>)

\* Call c of a mutator has run the i assignments of its callback.
Ran(c, i) == i = Len(WriteCb(c))

\* C12: the callback of ClearSession changes no typed field but the access
\* token, the refresh token, the account and the resource group; when it has
\* run these four are empty in the typed document (HasAccount and
\* HasResourceGroup are false), after the regeneration also in the raw map,
\* and in what is handed to Save; a SetIAMRefreshToken that follows hands
\* Save an empty access token, not the old one.  (A call that the handler's
\* panic ended during the load has not run its callback.)
C12_SessionCleared ==
    [][\A t \in Threads :
          /\ call[t].op = "ClearSession" /\ pc[t] = "cb" =>
                \A f \in KnownFields \ SessionFields : data'[f] = data[f]
          /\ call'[t].op = "ClearSession" /\ Ran(call'[t], idx'[t])
                 /\ pc'[t] \in {"regen", "save", "saveErr", "unlock"} =>
                /\ \A f \in SessionFields : data'[f] = ZeroData[f]
                /\ ~HasAccount(ReadCb("Account", data'))
                /\ ~ReadCb("HasResourceGroup", data')
          /\ call'[t].op = "ClearSession" /\ Ran(call'[t], idx'[t])
                 /\ pc'[t] \in {"save", "saveErr", "unlock"} =>
                SessionCleared(raw')
          /\ call'[t].op = "ClearSession" /\ Ran(call'[t], idx'[t])
                 /\ pc'[t] \in {"saveErr", "unlock"} =>
                /\ SessionCleared(hist'.saved.obj)
                /\ \A f \in KnownFields \ SessionFields :
                      hist'.saved.obj[f] = GoVal(f, data'[f], heap')
          /\ call'[t].op = "SetIAMRefreshToken" /\ Ran(call'[t], idx'[t])
                 /\ hist'.tok["IAMToken"] = ""
                 /\ pc'[t] \in {"saveErr", "unlock"} =>
                /\ "IAMToken" \in DOMAIN hist'.saved.obj
                /\ hist'.saved.obj["IAMToken"] = JStr("")]_vars

\* The file held the access token "t0"; after ClearSession a refresh-token
\* write has handed Save a raw map whose access token is empty.
C12_Witness ==
    /\ pc[1] = "unlock" /\ call[1].op = "SetIAMRefreshToken" /\ ~ret[1].panic
    /\ "IAMToken" \in DOMAIN hist.loadedRaw
    /\ hist.loadedRaw["IAMToken"] = JStr("t0")
    /\ hist.tok["IAMToken"] = ""
    /\ hist.saved.kind = "raw"
    /\ hist.saved.obj["IAMToken"] = JStr("")
    /\ hist.saved.obj["IAMRefreshToken"] = JStr("r1")
    /\ data["Locale"] = "en"

----------------------------------------------------------------------------
(* Properties of the plugin-repo list.                                      *)

First(S) == CHOOSE i \in S : \A j \in S : i <= j

\* list without its element i.
Without(list, i) == SubSeq(list, 1, i - 1) \o SubSeq(list, i + 1, Len(list))

\* C13: the callback of SetPluginRepo(e) makes the list the old list followed
\* by e, also when an entry with that name in another case is in it; when
\* PluginRepo(n) returns with no other call under way, it returns the first
\* entry of the list whose name is n but for case and true, or the empty
\* entry and false when there is none.
C13_AppendAndFirstMatch ==
    [][\A t \in Threads :
          /\ call[t].op = "SetPluginRepo" /\ pc[t] = "cb" =>
                RepoList(data', heap') = Append(RepoList(data, heap), call[t].arg)
          /\ call[t].op = "PluginRepo" /\ pc[t] = "after" /\ pc'[t] = "idle" =>
                LET list == RepoList(data, heap)
                    m == Matches(list, call[t].arg)
                IN ret'[t].val = IF m = {}
                                 THEN [repo |-> ZeroRepo, found |-> FALSE]
                                 ELSE [repo |-> list[First(m)], found |-> TRUE]]_vars

\* "B" was appended to [f, b, F] although "b" is in it, and PluginRepo("b")
\* returned the earlier entry.
C13_Witness ==
    /\ ret[1].op = "PluginRepo" /\ ~ret[1].panic
    /\ ret[1].val = [repo |-> Repo(<<"b">>, "u2"), found |-> TRUE]
    /\ RepoList(data, heap) = <<Repo(<<"f">>, "u1"), Repo(<<"b">>, "u2"),
                                Repo(<<"F">>, "u3"), Repo(<<"B">>, "u5")>>

\* C14: the callback of UnSetPluginRepo(n) removes the first entry whose name
\* is n but for case and keeps every other entry, later duplicates too, in
\* order; it leaves the list alone when there is none; so when the only
\* match is removed, PluginRepo finds the name in no case.
C14_RemovesFirstMatch ==
    [][\A t \in Threads :
          call[t].op = "UnSetPluginRepo" /\ pc[t] = "cb" =>
              LET list == RepoList(data, heap)
                  m == Matches(list, call[t].arg)
              IN /\ RepoList(data', heap') =
                       IF m = {} THEN list ELSE Without(list, First(m))
                 /\ Cardinality(m) = 1 =>
                       Matches(RepoList(data', heap'), call[t].arg) = {}]_vars

\* SetPluginRepo("foo") on the empty list, UnSetPluginRepo("FOO"), and
\* PluginRepo("Foo") has found nothing.
C14_Witness ==
    /\ ncalls = 3 /\ loads = 1 /\ disk.kind = "json"
    /\ Len(heap) = 1 /\ heap[1][1] = Repo(Foo, "u4")
    /\ RepoList(data, heap) = <<>>
    /\ ret[1].op = "PluginRepo" /\ ~ret[1].panic
    /\ ret[1].val = [repo |-> ZeroRepo, found |-> FALSE]

----------------------------------------------------------------------------
(* Properties of the cloud name and type.                                   *)

Colons(id) == {i \in 1..Len(id) : id[i] = ":"}

\* The cloud name of a region id as the table of the claim gives it: with
\* other than two colons none; else the customer (the part before the first
\* colon) unless it is "ibm"; for "ibm" by the deployment (the part between
\* the colons): "yp" is bluemix, one that starts with "ys" is staging.
TableName(id) ==
    IF Cardinality(Colons(id)) # 2 THEN <<>>
    ELSE LET a == CHOOSE i \in Colons(id) : \A j \in Colons(id) : i <= j
             b == CHOOSE i \in Colons(id) : \A j \in Colons(id) : i >= j
             customer == SubSeq(id, 1, a - 1)
             deployment == SubSeq(id, a + 1, b - 1)
         IN IF customer # <<"i", "b", "m">> THEN customer
            ELSE IF deployment = <<"y", "p">>
                 THEN <<"b", "l", "u", "e", "m", "i", "x">>
            ELSE IF Len(deployment) >= 2 /\ deployment[1] = "y"
                        /\ deployment[2] = "s"
                 THEN <<"s", "t", "a", "g", "i", "n", "g">>
            ELSE <<>>

\* C15: what CloudName() returned is the name the table gives for the stored
\* region id, and what CloudType() returned is the stored region type.
C15_CloudNameTable ==
    \A t \in Threads :
        ~ret[t].panic =>
            /\ ret[t].op = "CloudName" => ret[t].val = TableName(data["RegionID"])
            /\ ret[t].op = "CloudType" => ret[t].val = data["RegionType"]

\* CloudName() has returned "staging" for the loaded id "ibm:ys1:us".
C15_Witness ==
    /\ data["RegionID"] = <<"i", "b", "m", ":", "y", "s", "1", ":", "u", "s">>
    /\ ret[1].op = "CloudName" /\ ~ret[1].panic
    /\ ret[1].val = <<"s", "t", "a", "g", "i", "n", "g">>

----------------------------------------------------------------------------
(* Properties that tie the raw map to the typed document.                   *)

\* Every key of m that names a field of BXConfigData holds that field's
\* value in document d.
RawAgrees(m, d, h) ==
    \A k \in DOMAIN m \cap KnownFields : m[k] = GoVal(k, d[k], h)

\* A mutator is between the first assignment of its callback and the point
\* where it has brought the raw map up to date.
MidWrite(t) == Writing(t) /\ pc[t] \in {"cb", "regen"}

\* C16: after a load that succeeded, whenever no mutator is in the middle of
\* its update, every known key of the raw map holds the typed field's value;
\* right after the regeneration of a full write the raw map has every known
\* field; and what a token write hands to Save agrees with the typed fields.
C16_RawAgreesWithTyped ==
    hist.loadOk =>
        /\ (\A t \in Threads : ~MidWrite(t)) => RawAgrees(raw, data, heap)
        /\ \A t \in Threads :
              /\ Writing(t) /\ Kind(call[t].op) = "write"
                     /\ pc[t] \in {"save", "saveErr", "unlock"}
                     /\ Ran(call[t], idx[t])
                 => KnownFields \subseteq DOMAIN raw
              /\ Writing(t) /\ Kind(call[t].op) = "writeRaw"
                     /\ pc[t] \in {"saveErr", "unlock"} /\ Ran(call[t], idx[t])
                 => /\ hist.saved.kind = "raw"
                    /\ RawAgrees(hist.saved.obj, data, heap)

\* After SetLocale("fr") a token write has handed Save a raw map that holds
\* the new token, the new locale and the loaded refresh token.
C16_Witness ==
    /\ hist.loadOk /\ pc[1] = "unlock" /\ call[1].op = "SetIAMToken"
    /\ ~ret[1].panic
    /\ hist.saved.kind = "raw"
    /\ hist.saved.obj["IAMToken"] = JStr("t1")
    /\ hist.saved.obj["Locale"] = JStr("fr")
    /\ hist.saved.obj["IAMRefreshToken"] = JStr("r0")

\* C17 as claimed: when no Save has failed and no mutator is between its
\* lock and its unlock, the file of the last Save decodes to the typed
\* fields in memory.
C17_PersistedIsMemory ==
    /\ hist.saved.kind # "" /\ hist.lastErr # "save: io"
    /\ \A t \in Threads : ~(Writing(t) /\ InCS(t))
    => DecodesTo(disk.obj, data, heap)

----------------------------------------------------------------------------
(* Properties of a lookup that runs beside mutators.                        *)

\* C18 as claimed: when PluginRepo(name) returns while only mutators for
\* other names ran beside it, it has found an entry if one with that name
\* was in the list during the whole lookup, and an entry it returns has been
\* in the list at some moment of the lookup.
C18_LookupAtomic ==
    [][\A t \in Threads :
          call[t].op = "PluginRepo" /\ pc[t] = "after" /\ pc'[t] = "idle" =>
              /\ hist.look[t].always => ret'[t].val.found
              /\ ret'[t].val.found => ret'[t].val.repo \in hist.look[t].seen]_vars

----------------------------------------------------------------------------
(* Progress.                                                                *)

\* Goroutine t holds neither side of the lock.
Released(t) == t \notin readers /\ wowner # t

\* C19: under fair scheduling every call that was made returns (or passes
\* the handler's panic on), a goroutine outside a call holds no lock, and
\* the lock is free when no call is under way.
C19_NoDeadlock ==
    /\ \A t \in Threads : (pc[t] # "idle") ~> (pc[t] = "idle")
    /\ [](\A t \in Threads : pc[t] = "idle" => Released(t))
    /\ []((\A t \in Threads : pc[t] = "idle") => readers = {} /\ wowner = 0)

\* The handler has panicked in a call of each goroutine, a third call has
\* returned, and the lock is free.
C19_Witness ==
    /\ \A t \in Threads : pc[t] = "idle"
    /\ ncalls = 3 /\ onError = "panic"
    /\ ret[1].panic /\ ret[2].op # "" /\ ~ret[2].panic
    /\ hist.lastHandled = "save: io"
    /\ readers = {} /\ wowner = 0

----------------------------------------------------------------------------
(* Properties of the plugin bootstrap.                                      *)

====
